---- MODULE Spec2Model ----
(***************************************************************************)
(* Model of the Lahelu -> Fediverse bridge (server.js): the SQLite store   *)
(* (users, posts, followers), the platform client calls (fetch), and the   *)
(* Fedify callbacks: actor dispatcher, key pairs dispatcher, outbox        *)
(* dispatcher, Follow and Undo inbox listeners.                            *)
(*                                                                         *)
(* Every callback is an async function run by one event loop.  A callback  *)
(* runs without interruption up to an await of external I/O (fetch,        *)
(* r.json(), generateCryptoKeyPair, exportJwk, importJwk, getObject,       *)
(* sendActivity); there it is suspended and any other callback may run.    *)
(* Each action below is one such uninterrupted stretch of one callback.    *)
(* better-sqlite3 calls are synchronous and never suspend.  An await of a  *)
(* promise that settles without I/O (ensureUser on a stored row, syncPosts *)
(* returning at a gate) resumes in the same drain of the microtask queue,  *)
(* before any I/O completion or request is delivered: the stretch goes on. *)
(***************************************************************************)
EXTENDS Integers, Sequences, FiniteSets, Bags, TLC

VARIABLES
    users,       \* table users: a set of rows
    posts,       \* table posts: a set of rows
    followers,   \* table followers: a set of rows
    now,         \* Date.now()
    keyCounter,  \* number of key pairs generateCryptoKeyPair has produced
    tasks,       \* the suspended callbacks: a bag of frames
    result,      \* what the callback settled by the last step returned or threw
    delivered,   \* history: per postId, what the latest posts body holding it said
    lastFetched  \* history: per username, the latest finished syncPosts that fetched

vars == <<users, posts, followers, now, keyCounter, tasks, result, delivered, lastFetched>>

-----------------------------------------------------------------------------
(* Bounds of the model *)

\* Date.now() advances up to this value
MaxTime == 5

\* number of callbacks that may be in flight at once
NumTasks == 2

-----------------------------------------------------------------------------
(* Program constants and input domains *)

\* SYNC_TTL_MS, in the model's clock unit
SYNC_TTL == 2

\* the clock starts more than SYNC_TTL after the epoch: a row that was never
\* synced (lastPostSync DEFAULT 0) is always past its TTL
StartTime == SYNC_TTL + 1

\* "Alice" and "alice" are two handles the platform may or may not treat as
\* one account
Usernames == {"alice", "Alice"}

Actors == {"https://remote.example/users/bob", "https://remote.example/users/eve"}

PostIds == {"p1", "p2", "p3", "p4"}

Titles == {"t1", "t2"}

\* a missing value (null / undefined) is the empty sequence, a present value
\* v is <<v>>
None == <<>>

Some(v) == <<v>>

IsSome(o) == Len(o) > 0

Val(o) == o[1]

-----------------------------------------------------------------------------
(* The platform (lahelu.com) as far as the bridge sees it *)

\* the account a handle names when the platform folds case
Canon(name) == IF name = "Alice" THEN "alice" ELSE name

\* userInfo.userId of an account
UserIdOf(name) == IF name = "alice" THEN "u-alice" ELSE "u-Alice"

\* the userInfo payloads get-username may answer a lookup of `name` with
UserPayloads(name) ==
    { [username |-> n, userId |-> UserIdOf(n)] : n \in {name, Canon(name)} }

\* postInfos[i].createTime of a post: fixed when the post is created
CreateTimeOf(p) == CASE p = "p1" -> 100 [] p = "p2" -> 300 [] OTHER -> 200

\* postInfos[i].isSensitive as the platform sends it: true, false or absent
IsSensitiveOf(p) == CASE p = "p1" -> Some(TRUE) [] p = "p2" -> Some(FALSE) [] OTHER -> None

\* the bodies get-user-posts may answer with: a page of posts, each carrying
\* its current title (postInfos absent reads as the empty page: `|| []`)
PostPages ==
    { f \in [PostIds -> {None} \cup { Some(t) : t \in Titles }] : TRUE }

PageItems(page) ==
    { [postId |-> p, title |-> Val(page[p]), isSensitive |-> IsSensitiveOf(p),
       createTime |-> CreateTimeOf(p)] : p \in { q \in PostIds : IsSome(page[q]) } }

-----------------------------------------------------------------------------
(* The store *)

\* db.prepare("SELECT * FROM users WHERE username=?").get(username)
GetUser(U, username) ==
    LET rs == { r \in U : r.username = username }
    IN  IF rs = {} THEN None ELSE Some(CHOOSE r \in rs : TRUE)

\* INSERT INTO users (...) VALUES (?, ?, ?, ?, ?, 0, 0): the row inserted
NewUserRow(u) ==
    [username |-> u.username, userId |-> u.userId, lastPostSync |-> 0,
     publicKey |-> None, privateKey |-> None]

\* the INSERT fails on the PRIMARY KEY when a row of that username exists
InsertUserConflicts(U, u) == \E r \in U : r.username = u.username

InsertUser(U, u) == U \cup {NewUserRow(u)}

\* UPDATE users SET lastPostSync=? WHERE username=?
SetLastPostSync(U, username, t) ==
    { IF r.username = username THEN [r EXCEPT !.lastPostSync = t] ELSE r : r \in U }

\* UPDATE users SET publicKey=?, privateKey=? WHERE username=?
SetKeys(U, username, pub, priv) ==
    { IF r.username = username
        THEN [r EXCEPT !.publicKey = Some(pub), !.privateKey = Some(priv)]
        ELSE r : r \in U }

\* SELECT COUNT(*) as c FROM followers WHERE username=? ; c > 0
hasFollowers(F, username) ==
    Cardinality({ r \in F : r.username = username }) > 0

\* INSERT OR IGNORE INTO followers (username, actor) VALUES (?, ?)
InsertFollower(F, username, actor) ==
    IF \E r \in F : r.username = username /\ r.actor = actor
      THEN F
      ELSE F \cup {[username |-> username, actor |-> actor]}

\* the DELETE with its two parameters bound in the wrong order
DeleteFollower_SwappedParameters(F, username, actor) ==
    { r \in F : ~(r.username = actor /\ r.actor = username) }

\* DELETE FROM followers WHERE username=? AND actor=?
DeleteFollower(F, username, actor) ==
    { r \in F : ~(r.username = username /\ r.actor = actor) }

\* the row syncPosts writes for one item of postInfos
PostRow(username, p) ==
    [postId |-> p.postId, username |-> username, title |-> p.title,
     rawContent |-> "[]",
     sensitive |-> IF IsSome(p.isSensitive) /\ Val(p.isSensitive) THEN 1 ELSE 0,
     createdAt |-> p.createTime]

\* INSERT OR IGNORE instead of INSERT OR REPLACE: the stored row wins
UpsertPost_OrIgnore(P, row) ==
    IF \E r \in P : r.postId = row.postId THEN P ELSE P \cup {row}

\* INSERT OR REPLACE INTO posts VALUES (...): postId is the PRIMARY KEY
UpsertPost(P, row) == { r \in P : r.postId # row.postId } \cup {row}

\* for (const p of data.postInfos || []) { INSERT OR REPLACE ... }
RECURSIVE UpsertAll(_, _, _)
UpsertAll(P, username, items) ==
    IF items = {} THEN P
    ELSE LET p == CHOOSE x \in items : TRUE
         IN  UpsertAll(UpsertPost(P, PostRow(username, p)), username, items \ {p})

\* SELECT * FROM posts WHERE username=?
PostsOf(P, username) == { r \in P : r.username = username }

\* ORDER BY createdAt ASC
RECURSIVE OrderedDesc_Ascending(_)
OrderedDesc_Ascending(rows) ==
    IF rows = {} THEN { <<>> }
    ELSE LET low == { r \in rows : \A q \in rows : r.createdAt <= q.createdAt }
         IN  UNION { { <<r>> \o s : s \in OrderedDesc_Ascending(rows \ {r}) } : r \in low }

\* ORDER BY createdAt DESC: the orders SQLite may return the rows in
RECURSIVE OrderedDesc(_)
OrderedDesc(rows) ==
    IF rows = {} THEN { <<>> }
    ELSE LET top == { r \in rows : \A q \in rows : q.createdAt <= r.createdAt }
         IN  UNION { { <<r>> \o s : s \in OrderedDesc(rows \ {r}) } : r \in top }

-----------------------------------------------------------------------------
(* Keys: generateCryptoKeyPair, exportJwk, JSON.stringify, JSON.parse,     *)
(* importJwk                                                               *)

\* the n-th pair generateCryptoKeyPair produces
GenerateCryptoKeyPair(n) ==
    [publicKey |-> [half |-> "public", n |-> n],
     privateKey |-> [half |-> "private", n |-> n]]

\* exportJwk(key): the JWK object of a CryptoKey
exportJwk(key) == <<"jwk", key.half, key.n>>

\* JSON.stringify(jwk): the text stored in the TEXT column
Stringify(jwk) == <<"json">> \o jwk

\* JSON.parse(text)
Parse(text) == Tail(text)

\* importJwk(jwk, type): the CryptoKey of a JWK object, typed by the caller
importJwk(jwk, type) == [half |-> type, n |-> jwk[3]]

-----------------------------------------------------------------------------
(* Frames: the locals of a suspended callback, and what it did so far *)

\* kind: the callback; user: the username it resolved; actor: the remote
\* actor id of a Follow/Undo (None when absent); pc: the await it is
\* suspended at; row: what ensureUser returned to it; stored: the key texts
\* the key pairs dispatcher read; key: the key pair it generated; at: the
\* Date.now() at which its syncPosts issued the posts fetch.  lookups, inserts, fetches,
\* sent, wrote record what the callback has done: remote user lookups
\* issued, users rows inserted, remote posts fetches issued, sendActivity
\* called, any store write performed.
NewFrame(kind, user, actor) ==
    [kind |-> kind, user |-> user, actor |-> actor, pc |-> "start",
     row |-> None, stored |-> None, key |-> None, at |-> None,
     lookups |-> 0, inserts |-> 0, fetches |-> 0, sent |-> FALSE, wrote |-> FALSE]

NoResult ==
    [kind |-> "none", user |-> "", actor |-> None, outcome |-> "none", ret |-> <<>>,
     row |-> None, lookups |-> 0, inserts |-> 0, fetches |-> 0, sent |-> FALSE, wrote |-> FALSE]

Without(f) == tasks (-) SetToBag({f})

\* the callback awaits: its frame waits at pc
Suspend(rest, f, pc) ==
    /\ tasks' = rest (+) SetToBag({[f EXCEPT !.pc = pc]})
    /\ result' = NoResult

\* the callback's promise settles: outcome is "returned" or "threw"
Complete(rest, f, outcome, ret) ==
    /\ tasks' = rest
    /\ result' = [kind |-> f.kind, user |-> f.user, actor |-> f.actor,
                  outcome |-> outcome, ret |-> ret, row |-> f.row,
                  lookups |-> f.lookups, inserts |-> f.inserts,
                  fetches |-> f.fetches, sent |-> f.sent, wrote |-> f.wrote]

-----------------------------------------------------------------------------
(* Key pairs dispatcher, and what its callers do with the pairs *)

\* new Person({... publicKey: keyPairs[0].publicKey })
Person(username, pair) ==
    [type |-> "Person", preferredUsername |-> username, publicKey |-> pair.publicKey]

\* the caller of the key pairs dispatcher goes on with the array `keys`:
\* the dispatcher itself returns it; the actor dispatcher reads keyPairs[0]
\* (a TypeError on []); sendActivity refuses to sign without a key (the
\* Follow listener catches that) and otherwise delivers
AfterKeyPairs(rest, f, keys) ==
    CASE f.kind = "keys" -> Complete(rest, f, "returned", keys)
      [] f.kind = "actor" ->
            IF keys = <<>>
              THEN Complete(rest, f, "threw", <<>>)
              ELSE Complete(rest, f, "returned", <<Person(f.user, keys[1])>>)
      [] OTHER ->
            IF keys = <<>>
              THEN Complete(rest, f, "returned", <<>>)
              ELSE Suspend(rest, f, "deliver")

\* user.publicKey && user.privateKey
HasStoredKeys(user) == IsSome(user.publicKey) /\ IsSome(user.privateKey)

\* setKeyPairsDispatcher callback, up to its first await
KeyPairsBegin(rest, f, U) ==
    LET user == GetUser(U, f.user)
    IN  IF ~IsSome(user)
          THEN AfterKeyPairs(rest, f, <<>>)
          ELSE IF HasStoredKeys(Val(user))
            THEN Suspend(rest,
                         [f EXCEPT !.stored = Some([publicKey |-> Val(Val(user).publicKey),
                                                    privateKey |-> Val(Val(user).privateKey)])],
                         "kp_import")
            ELSE Suspend(rest, f, "kp_gen")

-----------------------------------------------------------------------------
(* syncPosts after ensureUser, and the outbox read *)

\* new Create({ actor, to: Public, object: new Note({...}) })
Create(username, p) ==
    [type |-> "Create", actor |-> username, note |-> p.postId, content |-> p.title,
     published |-> p.createdAt, sensitive |-> (p.sensitive # 0)]

\* rows.map(p => new Create(...))
Activities(username, rows) == [i \in 1..Len(rows) |-> Create(username, rows[i])]

\* the outbox dispatcher after `await syncPosts(username)`
OutboxRead(rest, f, P) ==
    \E rows \in OrderedDesc(PostsOf(P, f.user)) :
        Complete(rest, f, "returned", Activities(f.user, rows))

\* the TTL test with <= for <
WithinTtl_OffByOne(t, user) == t - user.lastPostSync <= SYNC_TTL

\* Date.now() - user.lastPostSync < SYNC_TTL
WithinTtl(t, user) == t - user.lastPostSync < SYNC_TTL

\* syncPosts without `if (!hasFollowers(username)) return`
SyncGateCloses_NoFollowerGate(user, F, username, t) ==
    \/ ~IsSome(user)
    \/ WithinTtl(t, Val(user))

\* the three gates of syncPosts: user, followers, TTL
SyncGateCloses(user, F, username, t) ==
    \/ ~IsSome(user)
    \/ ~hasFollowers(F, username)
    \/ WithinTtl(t, Val(user))

\* syncPosts from the return of ensureUser up to the posts fetch (`user` is
\* not read again after the fetch is issued)
SyncPostsGate(rest, f, F, P, t) ==
    IF SyncGateCloses(f.row, F, f.user, t)
      THEN OutboxRead(rest, f, P)
      ELSE Suspend(rest, [f EXCEPT !.fetches = @ + 1, !.row = None, !.at = Some(t)], "sp_fetch")

-----------------------------------------------------------------------------
(* ensureUser *)

\* the caller of ensureUser goes on with the row (or null) it returned
AfterEnsureUser(rest, f, U, F, P, t) ==
    IF f.kind = "actor"
      THEN IF ~IsSome(f.row)
             THEN Complete(rest, f, "returned", <<>>)
             ELSE KeyPairsBegin(rest, f, U)
      ELSE SyncPostsGate(rest, f, F, P, t)

\* ensureUser without `if (user) return user`: every call asks the platform
EnsureUserBegin_NoCacheHit(rest, f, U, F, P, t) ==
    Suspend(rest, [f EXCEPT !.lookups = @ + 1], "eu_fetch")

\* ensureUser up to its first await: a hit returns the row, a miss issues
\* the remote lookup
EnsureUserBegin(rest, f, U, F, P, t) ==
    LET user == GetUser(U, f.user)
    IN  IF IsSome(user)
          THEN AfterEnsureUser(rest, [f EXCEPT !.row = user], U, F, P, t)
          ELSE Suspend(rest, [f EXCEPT !.lookups = @ + 1], "eu_fetch")

-----------------------------------------------------------------------------
(* Inputs of the callbacks *)

\* Fedify hands the dispatchers `identifier` as a string or as an object
Identifiers ==
    { <<"string", u>> : u \in Usernames } \cup
    { <<"object", [identifier |-> u]>> : u \in Usernames }

\* typeof identifier === "object" ? identifier.identifier : identifier
UsernameOf(identifier) ==
    IF identifier[1] = "object" THEN identifier[2].identifier ELSE identifier[2]

\* the inbox context: ctx.parameters?.identifier and ctx.url (its pathname,
\* split on "/"), each possibly absent
InboxContexts ==
    { [parameters |-> Some(u), url |-> None] : u \in Usernames } \cup
    { [parameters |-> None, url |-> Some(<<"", "users", u, "inbox">>)] : u \in Usernames } \cup
    { [parameters |-> None, url |-> Some(<<"", "inbox">>)],
      [parameters |-> None, url |-> None] }

\* pathname.split("/")[i]
Segment(path, i) == IF i + 1 <= Len(path) THEN Some(path[i + 1]) ELSE None

\* ctx.parameters?.identifier || (ctx.url ? new URL(ctx.url).pathname.split("/")[2] : null)
InboxUsername(ctx) ==
    IF IsSome(ctx.parameters) /\ Val(ctx.parameters) # ""
      THEN ctx.parameters
      ELSE IF IsSome(ctx.url) THEN Segment(Val(ctx.url), 2) ELSE None

\* !username, !actorId, !followId
Falsy(o) == ~IsSome(o) \/ Val(o) = ""

OptActors == {None} \cup { Some(a) : a \in Actors }

\* follow.id: a URL object, a string (that parses as a URL or does not), or
\* something else
FollowIds ==
    { <<"URL", "https://remote.example/follows/1">>,
      <<"string", "https://remote.example/follows/1">>,
      <<"string", "follows/1">>,
      <<"absent", "">> }

\* follow.id instanceof URL ? follow.id.href
\*   : (typeof follow.id === "string" ? follow.id : null)
FollowIdOf(id) ==
    CASE id[1] = "URL" -> Some(id[2])
      [] id[1] = "string" -> Some(id[2])
      [] OTHER -> None

\* new URL(s) throws a TypeError on a string that is no absolute URL
UrlParses(s) == s = "https://remote.example/follows/1"

\* what `await undo.getObject()` settles to
ObjectOutcomes == {"Follow", "Note", "null", "rejected"}

\* what an awaited fetch settles to: r.ok, !r.ok, or a rejection
FetchOutcomes == {"ok", "not ok", "rejected"}

-----------------------------------------------------------------------------
(* Initial state: a fresh store, no callback in flight *)

Init ==
    /\ users = {}
    /\ posts = {}
    /\ followers = {}
    /\ now = StartTime
    /\ keyCounter = 0
    /\ tasks = EmptyBag
    /\ result = NoResult
    /\ delivered = [p \in PostIds |-> None]
    /\ lastFetched = [u \in Usernames |-> None]

CanStart == BagCardinality(tasks) < NumTasks

Waiting(pc) == { f \in BagToSet(tasks) : f.pc = pc }

-----------------------------------------------------------------------------
(* Actor dispatcher and ensureUser *)

\* setActorDispatcher callback up to its first await
ActorDispatch(identifier) ==
    /\ CanStart
    /\ EnsureUserBegin(tasks, NewFrame("actor", UsernameOf(identifier), None),
                       users, followers, posts, now)
    /\ UNCHANGED <<users, posts, followers, now, keyCounter, delivered, lastFetched>>

\* ensureUser: `await fetch(...get-username...)` settles
UserLookupResponds(f, outcome) ==
    /\ f.pc = "eu_fetch"
    /\ CASE outcome = "rejected" -> Complete(Without(f), f, "threw", <<>>)
         [] outcome = "not ok" ->
              AfterEnsureUser(Without(f), [f EXCEPT !.row = None],
                              users, followers, posts, now)
         [] OTHER -> Suspend(Without(f), f, "eu_json")
    /\ UNCHANGED <<users, posts, followers, now, keyCounter, delivered, lastFetched>>

\* ensureUser: `await r.json()` settles with a body whose userInfo is
\* absent (None) or the payload u
UserLookupBody(f, userInfo) ==
    /\ f.pc = "eu_json"
    /\ IF ~IsSome(userInfo)
         THEN /\ AfterEnsureUser(Without(f), [f EXCEPT !.row = None],
                                 users, followers, posts, now)
              /\ UNCHANGED users
         ELSE IF InsertUserConflicts(users, Val(userInfo))
           THEN /\ Complete(Without(f), f, "threw", <<>>)
                /\ UNCHANGED users
           ELSE LET U == InsertUser(users, Val(userInfo))
                IN  /\ users' = U
                    /\ AfterEnsureUser(Without(f),
                                       [f EXCEPT !.row = GetUser(U, f.user),
                                                 !.inserts = @ + 1, !.wrote = TRUE],
                                       U, followers, posts, now)
    /\ UNCHANGED <<posts, followers, now, keyCounter, delivered, lastFetched>>

-----------------------------------------------------------------------------
(* Key pairs dispatcher *)

\* setKeyPairsDispatcher callback up to its first await
KeyPairsDispatch(identifier) ==
    /\ CanStart
    /\ KeyPairsBegin(tasks, NewFrame("keys", UsernameOf(identifier), None), users)
    /\ UNCHANGED <<users, posts, followers, now, keyCounter, delivered, lastFetched>>

\* both `await importJwk(JSON.parse(...), ...)` settle
KeysImported(f) ==
    /\ f.pc = "kp_import"
    /\ AfterKeyPairs(Without(f), f,
           << [publicKey |-> importJwk(Parse(Val(f.stored).publicKey), "public"),
               privateKey |-> importJwk(Parse(Val(f.stored).privateKey), "private")] >>)
    /\ UNCHANGED <<users, posts, followers, now, keyCounter, delivered, lastFetched>>

\* `await generateCryptoKeyPair()` settles
KeyGenerated(f) ==
    /\ f.pc = "kp_gen"
    /\ keyCounter' = keyCounter + 1
    /\ Suspend(Without(f),
               [f EXCEPT !.key = Some(GenerateCryptoKeyPair(keyCounter + 1))],
               "kp_export")
    /\ UNCHANGED <<users, posts, followers, now, delivered, lastFetched>>

\* both `await exportJwk(...)` settle; the UPDATE; return [{ publicKey, privateKey }]
KeysExported(f) ==
    /\ f.pc = "kp_export"
    /\ users' = SetKeys(users, f.user,
                        Stringify(exportJwk(Val(f.key).publicKey)),
                        Stringify(exportJwk(Val(f.key).privateKey)))
    /\ AfterKeyPairs(Without(f), [f EXCEPT !.wrote = TRUE], << Val(f.key) >>)
    /\ UNCHANGED <<posts, followers, now, keyCounter, delivered, lastFetched>>

-----------------------------------------------------------------------------
(* Outbox dispatcher and syncPosts *)

\* the outbox dispatcher without `if (!hasFollowers(username)) return []`
OutboxDispatch_NoFollowerCheck(identifier) ==
    /\ CanStart
    /\ EnsureUserBegin(tasks, NewFrame("outbox", UsernameOf(identifier), None),
                       users, followers, posts, now)
    /\ UNCHANGED <<users, posts, followers, now, keyCounter, delivered, lastFetched>>

\* setOutboxDispatcher callback up to its first await
OutboxDispatch(identifier) ==
    /\ CanStart
    /\ LET f == NewFrame("outbox", UsernameOf(identifier), None)
       IN  IF ~hasFollowers(followers, f.user)
             THEN Complete(tasks, f, "returned", <<>>)
             ELSE EnsureUserBegin(tasks, f, users, followers, posts, now)
    /\ UNCHANGED <<users, posts, followers, now, keyCounter, delivered, lastFetched>>

\* history: the syncPosts of frame f has finished at `now`; `at` is the
\* latest time a finished syncPosts of the user issued its fetch
Fetched(f, ok) ==
    LET prev == lastFetched[f.user]
    IN  Some([end |-> now, ok |-> ok,
              at |-> IF IsSome(prev) /\ Val(prev).at > Val(f.at)
                       THEN Val(prev).at ELSE Val(f.at)])

\* syncPosts: `await fetch(...get-user-posts...)` settles
PostsFetchResponds(f, outcome) ==
    /\ f.pc = "sp_fetch"
    /\ CASE outcome = "rejected" ->
              /\ Complete(Without(f), f, "threw", <<>>)
              /\ lastFetched' = [lastFetched EXCEPT ![f.user] = Fetched(f, FALSE)]
         [] outcome = "not ok" ->
              /\ OutboxRead(Without(f), f, posts)
              /\ lastFetched' = [lastFetched EXCEPT ![f.user] = Fetched(f, FALSE)]
         [] OTHER ->
              /\ Suspend(Without(f), f, "sp_json")
              /\ UNCHANGED lastFetched
    /\ UNCHANGED <<users, posts, followers, now, keyCounter, delivered>>

\* syncPosts: `await r.json()` settles with the page; the upserts; the
\* UPDATE of lastPostSync; then the outbox dispatcher reads the rows
PostsBody(f, page) ==
    /\ f.pc = "sp_json"
    /\ posts' = UpsertAll(posts, f.user, PageItems(page))
    /\ users' = SetLastPostSync(users, f.user, now)
    /\ delivered' = [p \in PostIds |->
                        IF IsSome(page[p])
                          THEN Some([username |-> f.user, title |-> Val(page[p]),
                                     retitled |-> \/ \E r \in posts : /\ r.postId = p
                                                                      /\ r.title # Val(page[p])
                                                  \/ /\ IsSome(delivered[p])
                                                     /\ Val(delivered[p]).retitled])
                          ELSE delivered[p]]
    /\ lastFetched' = [lastFetched EXCEPT ![f.user] = Fetched(f, TRUE)]
    /\ OutboxRead(Without(f), [f EXCEPT !.wrote = TRUE], posts')
    /\ UNCHANGED <<followers, now, keyCounter>>

-----------------------------------------------------------------------------
(* Inbox listeners *)

\* the value SQLite binds for a parameter: an absent one binds as NULL
Text(o) == IF IsSome(o) THEN Val(o) ELSE "NULL"

\* the Follow listener without `if (!actorId) return`
FollowDropped_ActorNotChecked(username, actorId) == Falsy(username)

\* if (!username) return; ... if (!actorId) return;
FollowDropped(username, actorId) == Falsy(username) \/ Falsy(actorId)

\* if (!followId) return, and `new URL(followId)` throwing into the catch
AcceptImpossible(followId) == Falsy(followId) \/ ~UrlParses(Val(followId))

\* .on(Follow, ...) up to `await ctx.sendActivity(...)`; the try/catch makes
\* every throw a normal return
OnFollow(ctx, follow) ==
    /\ CanStart
    /\ LET username == InboxUsername(ctx)
           actorId  == follow.actorId
           followId == FollowIdOf(follow.id)
           f        == NewFrame("follow", Text(username), actorId)
       IN  IF FollowDropped(username, actorId)
             THEN /\ Complete(tasks, f, "returned", <<>>)
                  /\ UNCHANGED followers
             ELSE /\ followers' = InsertFollower(followers, f.user, Text(actorId))
                  /\ IF AcceptImpossible(followId)
                       THEN Complete(tasks, [f EXCEPT !.wrote = TRUE], "returned", <<>>)
                       ELSE KeyPairsBegin(tasks, [f EXCEPT !.wrote = TRUE, !.sent = TRUE],
                                          users)
    /\ UNCHANGED <<users, posts, now, keyCounter, delivered, lastFetched>>

\* ctx.sendActivity settles (delivered, or rejected and caught)
ActivityDelivered(f, outcome) ==
    /\ f.pc = "deliver"
    /\ Complete(Without(f), f, "returned", <<outcome>>)
    /\ UNCHANGED <<users, posts, followers, now, keyCounter, delivered, lastFetched>>

\* .on(Undo, ...) up to `await undo.getObject()`
OnUndo(ctx, undo) ==
    /\ CanStart
    /\ LET username == InboxUsername(ctx)
       IN  IF Falsy(username)
             THEN Complete(tasks, NewFrame("undo", Text(username), undo.actorId),
                           "returned", <<>>)
             ELSE Suspend(tasks, NewFrame("undo", Val(username), undo.actorId), "getObject")
    /\ UNCHANGED <<users, posts, followers, now, keyCounter, delivered, lastFetched>>

\* the Undo listener without `if (object instanceof Follow)`
ObjectResolved_AnyObject(f, object) ==
    /\ f.pc = "getObject"
    /\ CASE object = "rejected" ->
              /\ Complete(Without(f), f, "threw", <<>>)
              /\ UNCHANGED followers
         [] ~Falsy(f.actor) ->
              /\ followers' = DeleteFollower(followers, f.user, Val(f.actor))
              /\ Complete(Without(f), [f EXCEPT !.wrote = TRUE], "returned", <<object>>)
         [] OTHER ->
              /\ Complete(Without(f), f, "returned", <<object>>)
              /\ UNCHANGED followers
    /\ UNCHANGED <<users, posts, now, keyCounter, delivered, lastFetched>>

\* `await undo.getObject()` settles; no try/catch surrounds it
ObjectResolved(f, object) ==
    /\ f.pc = "getObject"
    /\ CASE object = "rejected" ->
              /\ Complete(Without(f), f, "threw", <<>>)
              /\ UNCHANGED followers
         [] object = "Follow" /\ ~Falsy(f.actor) ->
              /\ followers' = DeleteFollower(followers, f.user, Val(f.actor))
              /\ Complete(Without(f), [f EXCEPT !.wrote = TRUE], "returned", <<object>>)
         [] OTHER ->
              /\ Complete(Without(f), f, "returned", <<object>>)
              /\ UNCHANGED followers
    /\ UNCHANGED <<users, posts, now, keyCounter, delivered, lastFetched>>

-----------------------------------------------------------------------------
(* The clock *)

Tick ==
    /\ now < MaxTime
    /\ now' = now + 1
    /\ result' = NoResult
    /\ UNCHANGED <<users, posts, followers, keyCounter, tasks, delivered, lastFetched>>

-----------------------------------------------------------------------------
(* Specifications *)

\* the steps of ensureUser
EnsureUserSteps ==
    \/ \E f \in Waiting("eu_fetch") : \E o \in FetchOutcomes : UserLookupResponds(f, o)
    \/ \E f \in Waiting("eu_json") :
          \E u \in {None} \cup { Some(x) : x \in UserPayloads(f.user) } : UserLookupBody(f, u)

\* the steps of the key pairs dispatcher
KeySteps ==
    \/ \E f \in Waiting("kp_import") : KeysImported(f)
    \/ \E f \in Waiting("kp_gen") : KeyGenerated(f)
    \/ \E f \in Waiting("kp_export") : KeysExported(f)

\* the steps of syncPosts
SyncSteps(outcomes, pages) ==
    \/ \E f \in Waiting("sp_fetch") : \E o \in outcomes : PostsFetchResponds(f, o)
    \/ \E f \in Waiting("sp_json") : \E page \in pages : PostsBody(f, page)

\* the Follow and Undo activities delivered to the inboxes
InboxDeliveries(ctxs, actors, followIds) ==
    \/ \E ctx \in ctxs : \E a \in actors : \E id \in followIds :
          OnFollow(ctx, [actorId |-> a, id |-> id])
    \/ \E ctx \in ctxs : \E a \in actors : OnUndo(ctx, [actorId |-> a])

UndoSteps ==
    \E f \in Waiting("getObject") : \E o \in ObjectOutcomes : ObjectResolved(f, o)

Inbox(ctxs, actors, followIds) == InboxDeliveries(ctxs, actors, followIds) \/ UndoSteps

\* no callback is in flight
Idle == tasks = EmptyBag

DeliverSteps ==
    \E f \in Waiting("deliver") : \E o \in {"delivered", "rejected"} : ActivityDelivered(f, o)

\* Account and key provisioning: actor and key pairs requests for every
\* handle, in any interleaving.
NextProvision ==
    \/ \E id \in Identifiers : ActorDispatch(id)
    \/ \E id \in Identifiers : KeyPairsDispatch(id)
    \/ EnsureUserSteps
    \/ KeySteps

SpecProvision == Init /\ [][NextProvision]_vars

\* The follow handshake: Follow and Undo activities of every shape for both
\* handles, and actor requests that provision the account "alice".
NextInbox ==
    \/ Inbox(InboxContexts, OptActors, FollowIds)
    \/ DeliverSteps
    \/ ActorDispatch(<<"string", "alice">>)
    \/ EnsureUserSteps
    \/ KeySteps

SpecInbox == Init /\ [][NextInbox]_vars

\* Follow activities that carry no id at all: no Accept is attempted
QuietFollowIds == { id \in FollowIds : Falsy(FollowIdOf(id)) }

\* one remote actor, present or absent
OneActor == {None, Some("https://remote.example/users/bob")}

\* inbox contexts that carry the identifier as a parameter, or nothing
ParameterContexts == { ctx \in InboxContexts : ~IsSome(ctx.url) }

\* the pages of a platform that holds the one post p1, retitled at times
OnePostPages ==
    { pg \in PostPages : \A p \in PostIds \ {"p1"} : pg[p] = None }

\* Sync gating: outbox requests for "alice" in any interleaving while the
\* clock runs, remote fetches that succeed or fail, and Follow/Undo
\* activities of one remote actor for both handles.
NextSync ==
    \/ \E id \in { x \in Identifiers : UsernameOf(x) = "alice" } : OutboxDispatch(id)
    \/ SyncSteps(FetchOutcomes, OnePostPages)
    \/ EnsureUserSteps
    \/ Inbox(ParameterContexts, OneActor, QuietFollowIds)
    \/ Tick

SpecSync == Init /\ [][NextSync]_vars

\* the pages of a platform on which only the post p1 is ever retitled
ContentPages ==
    { pg \in PostPages : \A p \in PostIds \ {"p1"} : pg[p] # Some("t2") }

\* Outbox content: outbox requests for both handles and Follow/Undo
\* activities of one remote actor, handled one after the other within one
\* tick of the clock; pages of up to four posts.
NextOutbox ==
    \/ Idle /\ \E id \in Identifiers : OutboxDispatch(id)
    \/ SyncSteps({"ok"}, ContentPages)
    \/ EnsureUserSteps
    \/ Idle /\ InboxDeliveries(ParameterContexts, OneActor, QuietFollowIds)
    \/ UndoSteps

SpecOutbox == Init /\ [][NextOutbox]_vars

-----------------------------------------------------------------------------
(* Properties of account and key provisioning *)

\* the frame the step added to the suspended callbacks, if it added one
Added(g) == tasks' = tasks (+) SetToBag({g})

\* the callback the step started, if it started one: it settled at once, or
\* it was suspended at its first await
StartedNow ==
    IF tasks' = tasks /\ result'.kind # "none"
      THEN { result' }
      ELSE { g \in BagToSet(tasks') : Added(g) }

\* C1: for a handle the platform confirms under that very username, the
\* ensureUser call that provisions it performs exactly one remote lookup
\* and exactly one insert into users; an ensureUser call made once the row
\* exists issues no remote lookup, changes no table and returns the stored
\* row.
C1_EnsureUserIdempotent ==
    /\ [][\A f \in Waiting("eu_json") : \A u \in UserPayloads(f.user) :
            (/\ UserLookupBody(f, Some(u))
             /\ f.kind = "actor"
             /\ u.username = f.user
             /\ ~IsSome(GetUser(users, f.user)))
            => /\ { r \in users' : r.username = f.user } = users' \ users
               /\ Cardinality(users' \ users) = 1
               /\ users \subseteq users'
               /\ \E g \in BagToSet(tasks') :
                     /\ tasks' = Without(f) (+) SetToBag({g})
                     /\ g.row = GetUser(users', f.user)
                     /\ g.lookups = 1
                     /\ g.inserts = 1]_vars
    /\ [][\A c \in StartedNow :
            (/\ c.kind = "actor"
             /\ IsSome(GetUser(users, c.user)))
            => /\ UNCHANGED <<users, posts, followers>>
               /\ Added(c)
               /\ c.pc \in {"kp_import", "kp_gen"}
               /\ c.row = GetUser(users, c.user)
               /\ c.lookups = 0
               /\ c.inserts = 0
               /\ ~c.wrote]_vars

\* C1 witness: the call that provisioned the row has run to its end (the
\* keys it went on to generate are stored) and a later call has hit the row
C1_Witness ==
    \E g \in BagToSet(tasks) :
        /\ g.kind = "actor"
        /\ g.pc = "kp_import"
        /\ g.lookups = 0
        /\ IsSome(g.row)
        /\ Val(g.row).username = g.user
        /\ Cardinality({ r \in users : r.username = g.user }) = 1

\* C2: once publicKey/privateKey are stored on a users row, no step replaces
\* them with a different pair (a key pair is generated at most once per
\* username, whatever the interleaving of the key pairs dispatches).
C2_KeyPairNeverReplaced ==
    [][\A r \in users :
          HasStoredKeys(r) =>
              \E q \in users' :
                  /\ q.username = r.username
                  /\ q.publicKey = r.publicKey
                  /\ q.privateKey = r.privateKey]_vars

-----------------------------------------------------------------------------
(* Properties of content synchronisation *)

\* some follower row names the username
Followed(F, username) == \E r \in F : r.username = username

\* the step issued no remote posts fetch: no callback was suspended, and the
\* one that settled had issued none
NoPostsFetchIssued == tasks' \sqsubseteq tasks /\ result'.fetches = 0

\* the step issued exactly one remote posts fetch
OnePostsFetchIssued ==
    \E g \in BagToSet(tasks') : Added(g) /\ g.pc = "sp_fetch" /\ g.fetches = 1

\* C3: when syncPosts, back from ensureUser with the user's row, finds no
\* follower row for the username, it issues no remote posts fetch and
\* leaves posts and the row's lastPostSync as they were, although SYNC_TTL
\* has elapsed since lastPostSync.
C3_NoFollowersNoFetch ==
    [][\A f \in Waiting("eu_json") : \A u \in UserPayloads(f.user) :
          (/\ UserLookupBody(f, Some(u))
           /\ f.kind = "outbox"
           /\ \A r \in users : r.username # u.username
           /\ IsSome(GetUser(users', f.user))
           /\ ~Followed(followers, f.user))
          => /\ NoPostsFetchIssued
             /\ posts' = posts
             /\ users \subseteq users'
             /\ now - Val(GetUser(users', f.user)).lastPostSync >= SYNC_TTL
             /\ Val(GetUser(users', f.user)).lastPostSync = 0
             /\ result'.kind = "outbox"
             /\ result'.outcome = "returned"]_vars

\* C3 witness: an outbox request found followers, provisioned the user, and
\* by then the last follower was gone: its sync fetched nothing
C3_Witness ==
    /\ result.kind = "outbox"
    /\ result.inserts = 1
    /\ result.fetches = 0
    /\ IsSome(GetUser(users, result.user))
    /\ ~Followed(followers, result.user)
    /\ posts = {}

\* C4 as claimed: for a followed user, a syncPosts call made less than
\* SYNC_TTL after the previous call that fetched issues no remote posts
\* fetch, and one made once SYNC_TTL has elapsed issues exactly one.
C4_AsClaimed ==
    [][\A c \in StartedNow :
          LET u == c.user
          IN  (/\ c.kind = "outbox"
               /\ Followed(followers, u)
               /\ IsSome(GetUser(users, u))
               /\ IsSome(lastFetched[u]))
              => IF now - Val(lastFetched[u]).end < SYNC_TTL
                   THEN NoPostsFetchIssued
                   ELSE OnePostsFetchIssued]_vars

\* C4: for a followed user, a syncPosts call made less than SYNC_TTL after
\* a previous call whose remote posts fetch succeeded issues no remote posts
\* fetch; a call made once SYNC_TTL has elapsed since the previous call that
\* fetched issues exactly one.
C4_TtlGate ==
    [][\A c \in StartedNow :
          LET u == c.user
          IN  (/\ c.kind = "outbox"
               /\ Followed(followers, u)
               /\ IsSome(GetUser(users, u))
               /\ IsSome(lastFetched[u]))
              => /\ (Val(lastFetched[u]).ok /\ now - Val(lastFetched[u]).end < SYNC_TTL)
                       => NoPostsFetchIssued
                 /\ (now - Val(lastFetched[u]).end >= SYNC_TTL)
                       => OnePostsFetchIssued]_vars

\* C4 witness: a sync fetched successfully at time `end`; the clock has
\* moved, but by less than SYNC_TTL, and an outbox request of the still
\* followed user has just returned without fetching
C4_Witness ==
    /\ result.kind = "outbox"
    /\ result.outcome = "returned"
    /\ result.fetches = 0
    /\ Followed(followers, result.user)
    /\ IsSome(lastFetched[result.user])
    /\ Val(lastFetched[result.user]).ok
    /\ now > Val(lastFetched[result.user]).end
    /\ now - Val(lastFetched[result.user]).end < SYNC_TTL

\* C5: posts holds at most one row per postId, and that row carries the
\* username, title, sensitivity and creation time the latest posts body
\* holding that postId delivered.
C5_OneRowLatestTitle ==
    \A p \in PostIds :
        LET rows == { r \in posts : r.postId = p }
        IN  /\ Cardinality(rows) <= 1
            /\ (rows # {}) <=> IsSome(delivered[p])
            /\ \A r \in rows :
                  /\ r.title = Val(delivered[p]).title
                  /\ r.username = Val(delivered[p]).username
                  /\ r.createdAt = CreateTimeOf(p)
                  /\ r.sensitive = (IF IsSensitiveOf(p) = Some(TRUE) THEN 1 ELSE 0)

\* C5 witness: a post was synced, then synced again under another title
C5_Witness ==
    \E r \in posts :
        /\ IsSome(delivered[r.postId])
        /\ Val(delivered[r.postId]).retitled
        /\ r.title = "t2"

\* C8: the outbox dispatcher of a followed actor returns exactly one Create
\* per posts row of that username, in non-increasing createdAt order, each
\* carrying its row's title; rows of other usernames do not appear.
C8_OutboxOrder ==
    (/\ result.kind = "outbox"
     /\ result.outcome = "returned"
     /\ Followed(followers, result.user))
    => LET rows == { r \in posts : r.username = result.user }
           ret  == result.ret
       IN  /\ Len(ret) = Cardinality(rows)
           /\ { ret[i].note : i \in 1..Len(ret) } = { r.postId : r \in rows }
           /\ \A i \in 1..Len(ret) :
                 \E r \in rows : /\ ret[i].note = r.postId
                                 /\ ret[i].content = r.title
                                 /\ ret[i].published = r.createdAt
                                 /\ ret[i].type = "Create"
           /\ \A i, j \in 1..Len(ret) : i < j => ret[i].published >= ret[j].published

\* C8 witness: posts created at 100, 300 and 200 came out as 300, 200, 100
\* while the other username has rows too
C8_Witness ==
    /\ result.kind = "outbox"
    /\ Followed(followers, result.user)
    /\ Len(result.ret) = 3
    /\ result.ret[1].published = 300
    /\ result.ret[2].published = 200
    /\ result.ret[3].published = 100
    /\ result.ret[3].content = "t2"
    /\ \E r \in posts : r.username # result.user

\* C9: an outbox dispatch for an actor without follower rows returns the
\* empty sequence at once: no remote lookup or fetch, no store write,
\* whatever posts rows the actor has.
C9_UnfollowedOutboxEmpty ==
    [][\A c \in StartedNow :
          (/\ c.kind = "outbox"
           /\ ~Followed(followers, c.user))
          => /\ result'.kind = "outbox"
             /\ result'.outcome = "returned"
             /\ result'.ret = <<>>
             /\ result'.lookups = 0
             /\ result'.fetches = 0
             /\ ~result'.wrote
             /\ tasks' = tasks
             /\ UNCHANGED <<users, posts, followers>>]_vars

\* C9 witness: an unfollowed actor with posts rows was just answered with
\* the empty sequence
C9_Witness ==
    /\ result.kind = "outbox"
    /\ result.outcome = "returned"
    /\ result.ret = <<>>
    /\ ~Followed(followers, result.user)
    /\ \E r \in posts : r.username = result.user

-----------------------------------------------------------------------------
(* Properties of the follow handshake *)

\* C6: a Follow of (username, actor) leaves a follower row for the pair, so
\* that hasFollowers(username) is true after it; an Undo whose object
\* resolves to a Follow, for the same pair, leaves no row for the pair.
C6_FollowUndoRoundTrip ==
    /\ [][\A c \in StartedNow :
            (/\ c.kind = "follow"
             /\ c.user \in Usernames
             /\ IsSome(c.actor))
            => /\ \E r \in followers' : r.username = c.user /\ r.actor = Val(c.actor)
               /\ Cardinality({ r \in followers' : r.username = c.user }) > 0]_vars
    /\ [][\A f \in Waiting("getObject") :
            (/\ ObjectResolved(f, "Follow")
             /\ IsSome(f.actor))
            => ~\E r \in followers' : r.username = f.user /\ r.actor = Val(f.actor)]_vars

\* C6 witness: the Follow of a pair is still delivering its Accept, and the
\* Undo of the same pair has just removed the row
C6_Witness ==
    /\ result.kind = "undo"
    /\ result.ret = <<"Follow">>
    /\ IsSome(result.actor)
    /\ \E g \in BagToSet(tasks) :
          /\ g.kind = "follow"
          /\ g.pc = "deliver"
          /\ g.user = result.user
          /\ g.actor = result.actor
    /\ ~\E r \in followers : r.username = result.user /\ r.actor = Val(result.actor)

\* C7: a Follow whose actor id is absent, or whose local username cannot be
\* resolved, leaves followers unchanged and calls sendActivity not at all.
C7_MalformedFollowDropped ==
    [][\A c \in StartedNow :
          (/\ c.kind = "follow"
           /\ (~IsSome(c.actor) \/ c.user \notin Usernames))
          => /\ followers' = followers
             /\ tasks' = tasks
             /\ result'.kind = "follow"
             /\ ~result'.sent
             /\ ~result'.wrote]_vars

\* C7 witness: a Follow without actor id was just dropped while follower
\* rows exist
C7_Witness ==
    /\ result.kind = "follow"
    /\ ~IsSome(result.actor)
    /\ result.user \in Usernames
    /\ ~result.sent
    /\ followers # {}

\* C10: the Follow handler and the Undo handler never let an exception
\* escape: each completes normally whatever step fails.
C10_HandlersNeverThrow ==
    result.kind \in {"follow", "undo"} => result.outcome # "threw"

-----------------------------------------------------------------------------
(* Properties of admission: who gets a users row, and when *)

\* C11: every follower row names a username that has a users row.
C11_NoOrphanFollowers ==
    \A r \in followers : \E u \in users : u.username = r.username

\* C12: a remote user lookup that ends without a user payload (non-success
\* status, transport failure, body without userInfo) makes ensureUser
\* return null: no users row is created and its caller goes on normally.
C12_LookupFailureIsNotFound ==
    /\ [][\A f \in Waiting("eu_fetch") : \A o \in {"not ok", "rejected"} :
            UserLookupResponds(f, o)
            => /\ users' = users
               /\ result'.kind = f.kind
               /\ result'.outcome = "returned"
               /\ ~IsSome(result'.row)]_vars
    /\ [][\A f \in Waiting("eu_json") :
            UserLookupBody(f, None)
            => /\ users' = users
               /\ result'.kind = f.kind
               /\ result'.outcome = "returned"
               /\ ~IsSome(result'.row)]_vars

\* C13: a key pair request for a username without users row (made by
\* Fedify for a key fetch, or while the Follow listener sends its Accept)
\* first asks the platform for the account instead of returning no pair.
C13_KeysProvisionFirst ==
    [][\A c \in StartedNow :
          (/\ c.kind \in {"keys", "follow"}
           /\ c.sent \/ c.kind = "keys"
           /\ ~IsSome(GetUser(users, c.user)))
          => /\ Added(c)
             /\ c.lookups = 1]_vars

-----------------------------------------------------------------------------
(* Properties of failing and overlapping synchronisations *)

\* C14: a remote posts fetch that fails (non-success status or transport
\* failure) leaves posts and lastPostSync unchanged and lets the outbox
\* dispatcher return normally; the next syncPosts call for the still
\* followed user issues the fetch again, whatever the time elapsed.
C14_FailedFetchIsSilent ==
    /\ [][\A f \in Waiting("sp_fetch") : \A o \in {"not ok", "rejected"} :
            PostsFetchResponds(f, o)
            => /\ posts' = posts
               /\ users' = users
               /\ result'.kind = "outbox"
               /\ result'.outcome = "returned"]_vars
    /\ [][\A c \in StartedNow :
            (/\ c.kind = "outbox"
             /\ Followed(followers, c.user)
             /\ IsSome(GetUser(users, c.user))
             /\ IsSome(lastFetched[c.user])
             /\ ~Val(lastFetched[c.user]).ok
             /\ Val(GetUser(users, c.user)).lastPostSync = 0)
            => OnePostsFetchIssued]_vars

-----------------------------------------------------------------------------
(* Properties of the inbox listeners *)

\* C15: a Follow handling that has ended with its pair in followers has
\* attempted to send an Accept (called sendActivity) in that handling.
C15_NoPendingFollow ==
    (/\ result.kind = "follow"
     /\ IsSome(result.actor)
     /\ \E r \in followers : r.username = result.user /\ r.actor = Val(result.actor))
    => result.sent

\* C16: an Undo changes followers only by deleting the row (resolved
\* username, Undo's actor), and only when its object is a Follow: an Undo of
\* any other object, or without resolvable username or actor, leaves
\* followers unchanged; every Undo leaves the rows of other pairs, users and
\* posts unchanged.
C16_UndoOnlyDeletesItsPair ==
    /\ [][\A c \in StartedNow :
            c.kind = "undo" => UNCHANGED <<users, posts, followers>>]_vars
    /\ [][result'.kind = "undo"
            => /\ UNCHANGED <<users, posts>>
               /\ followers' \subseteq followers
               /\ followers \ followers' \subseteq
                      {[username |-> result'.user, actor |-> Text(result'.actor)]}
               /\ (\/ result'.ret # <<"Follow">>
                   \/ ~IsSome(result'.actor)
                   \/ result'.user \notin Usernames) => followers' = followers]_vars

\* C16 witness: an Undo(Follow) has just removed its pair while the Follow
\* of that pair is still delivering its Accept; the row of another actor
\* for the same username, and a users row, are still there
C16_Witness ==
    /\ result.kind = "undo"
    /\ result.ret = <<"Follow">>
    /\ result.wrote
    /\ \E g \in BagToSet(tasks) :
          g.kind = "follow" /\ g.user = result.user /\ g.actor = result.actor
    /\ \E r \in followers : r.username = result.user /\ r.actor # Val(result.actor)
    /\ users # {}

-----------------------------------------------------------------------------
(* Properties of overlapping requests *)

\* C17: when two callbacks both call ensureUser for a username without
\* row and both receive its payload, neither fails and users ends with
\* exactly one row of the username.
C17_ConcurrentEnsureUser ==
    [][\A f \in Waiting("eu_json") : \A u \in UserPayloads(f.user) :
          (/\ UserLookupBody(f, Some(u))
           /\ u.username = f.user)
          => /\ result'.outcome # "threw"
             /\ Cardinality({ r \in users' : r.username = f.user }) = 1]_vars

\* the frames whose syncPosts issued its remote posts fetch in this step
IssuedNow ==
    { g \in BagToSet(tasks') :
        g.pc = "sp_fetch" /\ CopiesIn(g, tasks') > CopiesIn(g, tasks) }

\* C18: any two remote posts fetches issued for one actor are at least
\* SYNC_TTL apart: when a fetch is issued, every earlier fetch for the
\* actor, finished or still in flight, was issued SYNC_TTL or more before.
C18_FetchesTtlApart ==
    [][\A g \in IssuedNow :
          /\ \A h \in BagToSet(tasks) :
                (h.user = g.user /\ IsSome(h.at)) => now - Val(h.at) >= SYNC_TTL
          /\ IsSome(lastFetched[g.user])
                => now - Val(lastFetched[g.user]).at >= SYNC_TTL]_vars

\* C19: an outbox dispatch that settles while its actor has no follower row
\* returns the empty sequence, and the step in which it settles writes no
\* posts row and no lastPostSync, also when the last follower was removed
\* while the dispatch was suspended.
C19_UnfollowedNeverServed ==
    [][(/\ result'.kind = "outbox"
        /\ result'.outcome = "returned"
        /\ ~Followed(followers', result'.user))
       => /\ result'.ret = <<>>
          /\ posts' = posts
          /\ \A r \in users : \E q \in users' : /\ q.username = r.username
                                                /\ q.lastPostSync = r.lastPostSync]_vars

\* C20: whenever ensureUser(username) receives a user payload, whatever
\* username the payload carries, users holds a row under the requested
\* username afterwards and ensureUser returns that row to its caller.
C20_PayloadRowIsReturned ==
    [][\A f \in Waiting("eu_json") : \A u \in UserPayloads(f.user) :
          (/\ UserLookupBody(f, Some(u))
           /\ f.kind = "actor")
          => /\ IsSome(GetUser(users', f.user))
             /\ \E g \in BagToSet(tasks') :
                   /\ tasks' = Without(f) (+) SetToBag({g})
                   /\ g.row = GetUser(users', f.user)]_vars

====
